---- MODULE Spec2Model ----
(***************************************************************************)
(* Model of the four-stage multi-prompt pipeline                           *)
(* (src/scripts/multi_prompt_agent.py), of the data filter                 *)
(* (src/agents/data_filter.py), of schema discovery                        *)
(* (src/agents/schema_discovery.py and the reference SchemaDiscovery), of  *)
(* question classification (src/agents/question_analyzer.py), of the       *)
(* parsing of completion responses (src/scripts/condition_3_test.py) and   *)
(* of the configuration learning manager                                   *)
(* (src/scripts/config_learning_manager.py).                               *)
(*                                                                         *)
(* The orchestrator is single-threaded: one run_complete_pipeline call is  *)
(* active at a time.  Each stage is split at its only blocking point, the  *)
(* completion-service call: StageKBegin is the code up to the call,        *)
(* StageKEnd is the call's outcome and the code after it.  Writes into the *)
(* session directory are taken to succeed.                                 *)
(***************************************************************************)
EXTENDS Integers, Sequences, FiniteSets, TLC

\* ---------------------------------------------------------------- bounds
MaxClock == 1
MaxAgents == 2
MaxRuns == 2
MaxTokens == 2
MaxCsvRows == 2
MaxVal == 2
MaxFrameRows == 3
MaxRowsCfg == 1
MaxFilterRows == 2
MaxMaxRows == 2
MaxSchemaRows == 2
MaxSources == 2
MaxTextLen == 3
MaxLearningFiles == 2
MaxCycles == 3

Stages == 1..4
Clock == 0..MaxClock
TokenVals == 1..MaxTokens

\* pipeline.stages.<stage>.enabled of the configuration file: every stage
\* enabled (the default), or one stage switched off
Configs == {[k \in Stages |-> k # off] : off \in 0..4}

\* what discover_data_sources finds: nothing, only org/global files,
\* or at least one curated file
DataFileKinds == {"none", "other", "curated"}

\* a curated csv: the priority_score values of its rows, and whether the
\* column exists at all
PriorityVals == 1..MaxVal
RECURSIVE SeqsUpTo(_, _)
SeqsUpTo(S, n) ==
  IF n = 0 THEN {<<>>}
  ELSE LET shorter == SeqsUpTo(S, n - 1)
       IN shorter \cup {Append(s, x) : s \in {t \in shorter : Len(t) = n - 1}, x \in S}
DataFrames == [hasPriority : BOOLEAN, vals : SeqsUpTo(PriorityVals, MaxCsvRows)]

\* ------------------------------------------------------------ file system
FileNames == {"data_discovery", "stage_1", "stage_2", "stage_3", "filtered_data",
              "stage_4", "final_output", "complete"}
\* a file's content: the stage that wrote it (0: the file does not exist;
\* 5: the orchestrator) and the rows it holds; the rest of the json is left
\* abstract
NoFile == [stage |-> 0, rows |-> <<>>]
EmptyDir == [f \in FileNames |-> NoFile]

\* the artifact stage k writes on success
StageFileShared(k) == "stage_1"
StageFile(k) ==
  CASE k = 1 -> "stage_1"
    [] k = 2 -> "stage_2"
    [] k = 3 -> "stage_3"
    [] k = 4 -> "stage_4"

\* --------------------------------------------------------- stage results
NoResult == [kind |-> "none", cause |-> "", tokens |-> 0]
EmptyResult == [kind |-> "empty", cause |-> "", tokens |-> 0]
ErrorResult(c) == [kind |-> "error", cause |-> c, tokens |-> 0]
OkResult(tok) == [kind |-> "ok", cause |-> "", tokens |-> tok]

\* DataFrame.nlargest(n, column): the indices of the n largest values in
\* descending order of value, the first occurrence first among equal values
RECURSIVE NlargestFrom(_, _, _)
NlargestFrom(n, vals, left) ==
  IF n = 0 \/ left = {} THEN <<>>
  ELSE LET best == CHOOSE i \in left :
                     \A j \in left : vals[i] > vals[j] \/ (vals[i] = vals[j] /\ i <= j)
       IN <<best>> \o NlargestFrom(n - 1, vals, left \ {best})
Nlargest(n, vals) == NlargestFrom(n, vals, DOMAIN vals)

\* DataFrame.head(n)
Head_(n, vals) == [i \in 1..(IF n < Len(vals) THEN n ELSE Len(vals)) |-> i]

\* the placeholder selection of stage 3
SelectRows(df) ==
  IF df.hasPriority THEN Nlargest(MaxRowsCfg, df.vals) ELSE Head_(MaxRowsCfg, df.vals)

\* the order in which run_complete_pipeline calls the stages: the stage
\* called after stage k has returned (5: aggregation)
StageAfterSwapped(k) == CASE k = 1 -> 3 [] k = 3 -> 2 [] k = 2 -> 4 [] OTHER -> 5
StageAfter(k) == k + 1

BeginPc(k) ==
  CASE k = 1 -> "s1" [] k = 2 -> "s2" [] k = 3 -> "s3" [] k = 4 -> "s4" [] OTHER -> "agg"
CallPc(k) ==
  CASE k = 1 -> "c1" [] k = 2 -> "c2" [] k = 3 -> "c3" [] k = 4 -> "c4"

\* aggregate token usage over the four stage results
TotalTokensNoOutput(res) ==
  (IF res[1].kind = "ok" THEN res[1].tokens ELSE 0) +
  (IF res[2].kind = "ok" THEN res[2].tokens ELSE 0) +
  (IF res[3].kind = "ok" THEN res[3].tokens ELSE 0)
TotalTokens(res) ==
  (IF res[1].kind = "ok" THEN res[1].tokens ELSE 0) +
  (IF res[2].kind = "ok" THEN res[2].tokens ELSE 0) +
  (IF res[3].kind = "ok" THEN res[3].tokens ELSE 0) +
  (IF res[4].kind = "ok" THEN res[4].tokens ELSE 0)

\* the record run_complete_pipeline returns
NoReturn == [returned |-> FALSE, success |-> FALSE, session_id |-> 0,
             total_token_usage |-> 0, stages |-> [k \in Stages |-> NoResult]]
FailureReturn(sid) == [returned |-> TRUE, success |-> FALSE, session_id |-> sid,
                       total_token_usage |-> 0, stages |-> [k \in Stages |-> NoResult]]
CompleteResultsDropErrors(sid, res) ==
  [returned |-> TRUE, success |-> TRUE, session_id |-> sid,
   total_token_usage |-> TotalTokens(res),
   stages |-> [k \in Stages |-> IF res[k].kind = "error" THEN EmptyResult ELSE res[k]]]
CompleteResultsFailOnError(sid, res) ==
  [returned |-> TRUE, success |-> \A k \in Stages : res[k].kind # "error",
   session_id |-> sid, total_token_usage |-> TotalTokens(res), stages |-> res]
CompleteResults(sid, res) ==
  [returned |-> TRUE, success |-> TRUE, session_id |-> sid,
   total_token_usage |-> TotalTokens(res), stages |-> res]

\* ------------------------------------------------------------------ state
VARIABLES
  clock,      \* wall clock, in seconds
  config,     \* the configuration file every agent loads
  agents,     \* session_id of each MultiPromptAgent instance
  fs,         \* results/multi_prompt/session_<id>/<file>
  pc,         \* position of the running run_complete_pipeline call
  cur,        \* the agent whose pipeline is running
  runNo,      \* number of run_complete_pipeline calls started
  runLog,     \* session_id of every run started
  dataFiles,  \* data_files of the current run
  results,    \* schema_result, question_result, filter_result, output_result
  filtered,   \* filtered_df of stage 3 and whether stage 3 computed it
  sent,       \* the filtered rows stage 4 puts into its prompt
  attempts,   \* completion-service calls made by each stage in this run
  billed,     \* tokens the service reported for each stage's completed call
  trace,      \* stage begin/return events of this run
  raised,     \* an exception escaped a stage function in this run
  ret         \* return value of run_complete_pipeline

pipeVars == <<clock, config, agents, fs, pc, cur, runNo, runLog, dataFiles, results,
              filtered, sent, attempts, billed, trace, raised, ret>>

NoRows == [computed |-> FALSE, rows |-> <<>>]
Ev(e, k) == [ev |-> e, stage |-> k]

Sid == agents[cur]
Enabled_(k) == config[k]

\* no run_complete_pipeline call has been made yet
NoRunYet ==
  /\ fs = [s \in Clock |-> EmptyDir]
  /\ pc = "idle"
  /\ cur = 0
  /\ runNo = 0
  /\ runLog = <<>>
  /\ dataFiles = "none"
  /\ results = [k \in Stages |-> NoResult]
  /\ filtered = NoRows
  /\ sent = NoFile
  /\ attempts = [k \in Stages |-> 0]
  /\ billed = [k \in Stages |-> 0]
  /\ trace = <<>>
  /\ raised = FALSE
  /\ ret = NoReturn

\* one agent has been constructed, at second 0
PipeInit ==
  /\ clock = 0
  /\ config \in Configs
  /\ agents = <<0>>
  /\ NoRunYet

\* no agent has been constructed yet
AgentsInit ==
  /\ clock = 0
  /\ config \in Configs
  /\ agents = <<>>
  /\ NoRunYet

WriteFile(dir, f, content) == [dir EXCEPT ![f] = content]

\* what a stage's except handler does to the session directory: it logs and
\* returns the error record, the directory stays as it is
ExceptHandlerCleanup(dir) == EmptyDir
ExceptHandler(dir) == dir
Artifact(k) == [stage |-> k, rows |-> <<>>]

\* MultiPromptAgent.__init__ at wall-clock second now (not before the last
\* second observed): the session id is the clock read to the second, the
\* session directory is created if it does not exist yet.  The clock is
\* read nowhere else.
CreateAgent ==
  /\ pc \in {"idle", "done"}
  /\ Len(agents) < MaxAgents
  /\ \E now \in clock..MaxClock :
       /\ clock' = now
       /\ agents' = Append(agents, now)
  /\ UNCHANGED <<config, fs, pc, cur, runNo, runLog, dataFiles, results,
                 filtered, sent, attempts, billed, trace, raised, ret>>

\* run_complete_pipeline is called on agent a
RunPipeline ==
  /\ pc \in {"idle", "done"}
  /\ runNo < MaxRuns
  /\ \E a \in DOMAIN agents :
       /\ cur' = a
       /\ runLog' = Append(runLog, agents[a])
  /\ pc' = BeginPc(1)
  /\ runNo' = runNo + 1
  /\ results' = [k \in Stages |-> NoResult]
  /\ filtered' = NoRows
  /\ sent' = NoFile
  /\ attempts' = [k \in Stages |-> 0]
  /\ billed' = [k \in Stages |-> 0]
  /\ trace' = <<>>
  /\ raised' = FALSE
  /\ ret' = NoReturn
  /\ UNCHANGED <<clock, config, agents, fs, dataFiles>>

\* an exception leaves stage k outside its try blocks (a missing
\* configuration key, an unreadable prompt file, a non-numeric
\* priority_score column): run_complete_pipeline's handler returns
Escape(k) ==
  /\ pc' = "done"
  /\ raised' = TRUE
  /\ ret' = FailureReturn(Sid)
  /\ trace' = Append(trace, Ev("begin", k))
  /\ UNCHANGED <<results, attempts, billed>>

\* stage k returns res without calling the completion service
ReturnEarly(k, res) ==
  /\ results' = [results EXCEPT ![k] = res]
  /\ trace' = trace \o <<Ev("begin", k), Ev("end", k)>>
  /\ pc' = BeginPc(StageAfter(k))
  /\ UNCHANGED <<attempts, billed, raised, ret>>

\* stage k calls messages.create and blocks
CallService(k) ==
  /\ attempts' = [attempts EXCEPT ![k] = @ + 1]
  /\ trace' = Append(trace, Ev("begin", k))
  /\ pc' = CallPc(k)
  /\ UNCHANGED <<results, billed, raised, ret>>

\* the completion call of stage k returned tok tokens of usage (tok > 0) or
\* raised (tok = 0); the stage returns res
ReturnFromCall(k, tok, res) ==
  /\ results' = [results EXCEPT ![k] = res]
  /\ billed' = [billed EXCEPT ![k] = tok]
  /\ trace' = Append(trace, Ev("end", k))
  /\ pc' = BeginPc(StageAfter(k))
  /\ UNCHANGED <<attempts, raised, ret>>

\* discover_data_sources followed by stage_1_schema_discovery up to the
\* completion call; a failed read of the sample csv is only logged
Stage1Begin ==
  /\ pc = "s1"
  /\ \E found \in DataFileKinds :
       /\ dataFiles' = found
       /\ fs' = [fs EXCEPT ![Sid] = WriteFile(@, "data_discovery", Artifact(1))]
       /\ \/ Escape(1)
          \/ /\ ~Enabled_(1) \/ found = "none"
             /\ ReturnEarly(1, EmptyResult)
          \/ /\ Enabled_(1) /\ found # "none"
             /\ CallService(1)
  /\ UNCHANGED <<clock, config, agents, cur, runNo, runLog, filtered, sent>>

Stage1End ==
  /\ pc = "c1"
  /\ \/ \E tok \in TokenVals :
          /\ fs' = [fs EXCEPT ![Sid] = WriteFile(@, StageFile(1), Artifact(1))]
          /\ ReturnFromCall(1, tok, OkResult(tok))
     \/ /\ ReturnFromCall(1, 0, ErrorResult("completion"))
        /\ fs' = [fs EXCEPT ![Sid] = ExceptHandler(@)]
  /\ UNCHANGED <<clock, config, agents, cur, runNo, runLog, dataFiles, filtered, sent>>

Stage2Begin ==
  /\ pc = "s2"
  /\ \/ Escape(2)
     \/ /\ ~Enabled_(2)
        /\ ReturnEarly(2, EmptyResult)
     \/ /\ Enabled_(2)
        /\ CallService(2)
  /\ UNCHANGED <<clock, config, agents, fs, cur, runNo, runLog, dataFiles, filtered, sent>>

Stage2End ==
  /\ pc = "c2"
  /\ \/ \E tok \in TokenVals :
          /\ fs' = [fs EXCEPT ![Sid] = WriteFile(@, StageFile(2), Artifact(2))]
          /\ ReturnFromCall(2, tok, OkResult(tok))
     \/ /\ ReturnFromCall(2, 0, ErrorResult("completion"))
        /\ fs' = [fs EXCEPT ![Sid] = ExceptHandler(@)]
  /\ UNCHANGED <<clock, config, agents, cur, runNo, runLog, dataFiles, filtered, sent>>

\* stage_3_data_filtering up to the completion call: load the first curated
\* csv and select max_rows rows of it
Stage3Begin ==
  /\ pc = "s3"
  /\ \/ /\ Escape(3)
        /\ UNCHANGED filtered
     \/ /\ ~Enabled_(3)
        /\ ReturnEarly(3, EmptyResult)
        /\ UNCHANGED filtered
     \/ /\ Enabled_(3) /\ dataFiles # "curated"
        /\ ReturnEarly(3, ErrorResult("no_curated"))
        /\ UNCHANGED filtered
     \/ /\ Enabled_(3) /\ dataFiles = "curated"
        /\ ReturnEarly(3, ErrorResult("load"))
        /\ UNCHANGED filtered
     \/ /\ Enabled_(3) /\ dataFiles = "curated"
        /\ \E df \in DataFrames :
             filtered' = [computed |-> TRUE, rows |-> SelectRows(df)]
        /\ CallService(3)
  /\ UNCHANGED <<clock, config, agents, fs, cur, runNo, runLog, dataFiles, sent>>

Stage3End ==
  /\ pc = "c3"
  /\ \/ \E tok \in TokenVals :
          /\ fs' = [fs EXCEPT ![Sid] =
                      WriteFile(WriteFile(@, "filtered_data",
                                          [stage |-> 3, rows |-> filtered.rows]),
                                StageFile(3), Artifact(3))]
          /\ ReturnFromCall(3, tok, OkResult(tok))
     \/ /\ ReturnFromCall(3, 0, ErrorResult("completion"))
        /\ fs' = [fs EXCEPT ![Sid] = ExceptHandler(@)]
  /\ UNCHANGED <<clock, config, agents, cur, runNo, runLog, dataFiles, filtered, sent>>

\* stage_4_output_generation up to the completion call: the filtered rows
\* are read back from filtered_data.csv of the session directory
Stage4Begin ==
  /\ pc = "s4"
  /\ \/ /\ Escape(4)
        /\ UNCHANGED sent
     \/ /\ ~Enabled_(4)
        /\ ReturnEarly(4, EmptyResult)
        /\ UNCHANGED sent
     \/ /\ Enabled_(4) /\ fs[Sid]["filtered_data"] = NoFile
        /\ ReturnEarly(4, ErrorResult("Filtered data not available"))
        /\ UNCHANGED sent
     \/ /\ Enabled_(4) /\ fs[Sid]["filtered_data"] # NoFile
        /\ ReturnEarly(4, ErrorResult("read"))
        /\ UNCHANGED sent
     \/ /\ Enabled_(4) /\ fs[Sid]["filtered_data"] # NoFile
        /\ sent' = fs[Sid]["filtered_data"]
        /\ CallService(4)
  /\ UNCHANGED <<clock, config, agents, fs, cur, runNo, runLog, dataFiles, filtered>>

Stage4End ==
  /\ pc = "c4"
  /\ \/ \E tok \in TokenVals :
          /\ fs' = [fs EXCEPT ![Sid] =
                      WriteFile(WriteFile(@, StageFile(4), Artifact(4)),
                                "final_output", Artifact(4))]
          /\ ReturnFromCall(4, tok, OkResult(tok))
     \/ /\ ReturnFromCall(4, 0, ErrorResult("completion"))
        /\ fs' = [fs EXCEPT ![Sid] = ExceptHandler(@)]
  /\ UNCHANGED <<clock, config, agents, cur, runNo, runLog, dataFiles, filtered, sent>>

\* the tail of run_complete_pipeline: aggregate, save the consolidated
\* results, return them
Finish ==
  /\ pc = "agg"
  /\ ret' = CompleteResults(Sid, results)
  /\ fs' = [fs EXCEPT ![Sid] =
              WriteFile(@, "complete", Artifact(5))]
  /\ pc' = "done"
  /\ UNCHANGED <<clock, config, agents, cur, runNo, runLog, dataFiles, results,
                 filtered, sent, attempts, billed, trace, raised>>

PipeNext ==
  \/ RunPipeline
  \/ Stage1Begin
  \/ Stage1End
  \/ Stage2Begin
  \/ Stage2End
  \/ Stage3Begin
  \/ Stage3End
  \/ Stage4Begin
  \/ Stage4End
  \/ Finish

\* ------------------------------------------------- score normalisation
\* (DataFilterAgent._normalize_priority_score / _normalize_volume_score)

\* a frame handed to the scoring step: which of the two columns exist, and
\* the rows' (non-missing, integer) values
FrameRows == [priority_score : 1..MaxVal, sales_volume : 1..MaxVal]
Frames == [hasPriority : BOOLEAN, hasVolume : BOOLEAN, rows : SeqsUpTo(FrameRows, MaxFrameRows)]
NoFrame == [hasPriority |-> FALSE, hasVolume |-> FALSE, rows |-> <<>>]

\* a float score: NaN, or the exact quotient num/den
NaN == [nan |-> TRUE, num |-> 0, den |-> 1]
Frac(n, d) == [nan |-> FALSE, num |-> n, den |-> d]

ColMin(col) == CHOOSE m \in {col[i] : i \in DOMAIN col} : \A i \in DOMAIN col : m <= col[i]
ColMax(col) == CHOOSE m \in {col[i] : i \in DOMAIN col} : \A i \in DOMAIN col : m >= col[i]

\* (col - col.min()) / (col.max() - col.min()) on a pandas Series: 0/0 is NaN
MinMaxNormalize(col) ==
  [i \in DOMAIN col |->
     IF ColMax(col) = ColMin(col) THEN NaN
     ELSE Frac(col[i] - ColMin(col), ColMax(col) - ColMin(col))]

NormalizePriorityScore(frame) ==
  IF frame.hasPriority
  THEN MinMaxNormalize([i \in DOMAIN frame.rows |-> frame.rows[i].priority_score])
  ELSE [i \in DOMAIN frame.rows |-> Frac(1, 2)]

NormalizeVolumeScore(frame) ==
  IF frame.hasVolume
  THEN MinMaxNormalize([i \in DOMAIN frame.rows |-> frame.rows[i].sales_volume])
  ELSE [i \in DOMAIN frame.rows |-> Frac(1, 2)]

VARIABLES
  data,          \* the frame being scored
  npc,           \* position in the scoring step
  priorityNorm,  \* column priority_score_norm
  volumeNorm     \* column volume_score_norm

normVars == <<data, npc, priorityNorm, volumeNorm>>

NormIdle ==
  /\ data = NoFrame
  /\ npc = "off"
  /\ priorityNorm = <<>>
  /\ volumeNorm = <<>>

NormInit ==
  /\ data \in Frames
  /\ npc = "start"
  /\ priorityNorm = <<>>
  /\ volumeNorm = <<>>

NormalizePriority ==
  /\ npc = "start"
  /\ priorityNorm' = NormalizePriorityScore(data)
  /\ npc' = "priority"
  /\ UNCHANGED <<data, volumeNorm>>

NormalizeVolume ==
  /\ npc = "priority"
  /\ volumeNorm' = NormalizeVolumeScore(data)
  /\ npc' = "scored"
  /\ UNCHANGED <<data, priorityNorm>>

NormNext ==
  \/ NormalizePriority
  \/ NormalizeVolume

\* ------------------------------------------------------------ filter_data
\* (DataFilterAgent.filter_data on one frame and one filtering_criteria)

\* DataFilterAgent._load_config: weights are written in tenths
MaxRowsDefault == 25
MinPriorityScore == 100
MinSalesVolume == 500
DefaultWeights == [representative |-> 4, priority_score |-> 4, sales_volume |-> 2]
FilterConfig ==
  [max_rows |-> MaxRowsDefault, selection_weights |-> DefaultWeights,
   min_priority_score |-> MinPriorityScore, min_sales_volume |-> MinSalesVolume]

\* the frames handed to filter_data: rows around the default thresholds; a
\* column that does not exist holds one fixed value that is never read
FilterRows ==
  [priority_score : (MinPriorityScore - 1)..(MinPriorityScore + 1),
   sales_volume : (MinSalesVolume - 1)..MinSalesVolume]
RangeIndex(n) == [i \in 1..n |-> i]
FilterFrames ==
  {[hasPriority |-> f.hasPriority, hasVolume |-> f.hasVolume, rows |-> f.rows,
    index |-> RangeIndex(Len(f.rows))] :
     f \in {g \in [hasPriority : BOOLEAN, hasVolume : BOOLEAN,
                   rows : SeqsUpTo(FilterRows, MaxFilterRows)] :
              /\ ~g.hasPriority =>
                   \A i \in DOMAIN g.rows : g.rows[i].priority_score = MinPriorityScore
              /\ ~g.hasVolume =>
                   \A i \in DOMAIN g.rows : g.rows[i].sales_volume = MinSalesVolume}}
NoFilterFrame == [hasPriority |-> FALSE, hasVolume |-> FALSE, rows |-> <<>>, index |-> <<>>]

\* question_analysis["filtering_criteria"]: any of the four keys may be
\* missing; the weights all on priority, all on representativeness, or not
\* summing to 1.0
WeightChoices ==
  {[representative |-> 0, priority_score |-> 10, sales_volume |-> 0],
   [representative |-> 10, priority_score |-> 0, sales_volume |-> 0],
   [representative |-> 5, priority_score |-> 5, sales_volume |-> 5]}
CriteriaKeys == {"max_rows", "selection_weights", "min_priority_score", "min_sales_volume"}
FilteringCriteria ==
  {[k \in keys |-> full[k]] :
     keys \in SUBSET CriteriaKeys,
     full \in [max_rows : 0..MaxMaxRows, selection_weights : WeightChoices,
               min_priority_score : {0}, min_sales_volume : {0}]}

\* criteria.get(key, default)
Get(criteria, key, default) == IF key \in DOMAIN criteria THEN criteria[key] ELSE default

\* frame.iloc[positions]: the rows at positions, with their index labels
Take(frame, positions) ==
  [frame EXCEPT !.rows = [j \in DOMAIN positions |-> frame.rows[positions[j]]],
                !.index = [j \in DOMAIN positions |-> frame.index[positions[j]]]]

\* frame[mask]: boolean indexing keeps the rows' index labels
MaskResetIndex(frame, positions) ==
  [Take(frame, positions) EXCEPT !.index = RangeIndex(Len(positions))]
Mask(frame, positions) == Take(frame, positions)

\* a filter that drops the rows equal to a minimum
ApplyBasicFiltersStrict(frame, criteria) ==
  LET min_priority == Get(criteria, "min_priority_score", FilterConfig.min_priority_score)
      min_volume == Get(criteria, "min_sales_volume", FilterConfig.min_sales_volume)
      byPriority ==
        IF frame.hasPriority
        THEN Mask(frame, SelectSeq(RangeIndex(Len(frame.rows)),
                                   LAMBDA i : frame.rows[i].priority_score > min_priority))
        ELSE frame
  IN IF byPriority.hasVolume
     THEN Mask(byPriority, SelectSeq(RangeIndex(Len(byPriority.rows)),
                                     LAMBDA i : byPriority.rows[i].sales_volume > min_volume))
     ELSE byPriority

\* _apply_basic_filters: a threshold applies only if its column exists
ApplyBasicFilters(frame, criteria) ==
  LET min_priority == Get(criteria, "min_priority_score", FilterConfig.min_priority_score)
      min_volume == Get(criteria, "min_sales_volume", FilterConfig.min_sales_volume)
      byPriority ==
        IF frame.hasPriority
        THEN Mask(frame, SelectSeq(RangeIndex(Len(frame.rows)),
                                   LAMBDA i : frame.rows[i].priority_score >= min_priority))
        ELSE frame
  IN IF byPriority.hasVolume
     THEN Mask(byPriority, SelectSeq(RangeIndex(Len(byPriority.rows)),
                                     LAMBDA i : byPriority.rows[i].sales_volume >= min_volume))
     ELSE byPriority

\* float arithmetic on scores: w tenths times x, x plus y, x > y; every
\* operation on NaN gives NaN and every comparison with NaN is false
Scale(w, x) == IF x.nan THEN NaN ELSE Frac(w * x.num, 10 * x.den)
Plus(x, y) ==
  IF x.nan \/ y.nan THEN NaN ELSE Frac(x.num * y.den + y.num * x.den, x.den * y.den)
Greater(x, y) == ~x.nan /\ ~y.nan /\ x.num * y.den > y.num * x.den

\* _calculate_representative_score: np.random.random draws one value of
\* [0,1) per row; the model draws 0 or 0.5
RepresentativeDraws == {0, 1}
RepresentativeScore(rep) == [i \in DOMAIN rep |-> Frac(rep[i], 2)]

\* _calculate_selection_scores: column selection_score, given the draws
CalculateSelectionScores(frame, criteria, rep) ==
  LET weights == Get(criteria, "selection_weights", FilterConfig.selection_weights)
      representative_score == RepresentativeScore(rep)
      priority_score_norm == NormalizePriorityScore(frame)
      volume_score_norm == NormalizeVolumeScore(frame)
  IN [i \in DOMAIN frame.rows |->
        Plus(Plus(Scale(weights.representative, representative_score[i]),
                  Scale(weights.priority_score, priority_score_norm[i])),
             Scale(weights.sales_volume, volume_score_norm[i]))]

\* Series.nlargest(n, keep="first") on the score column: the positions of
\* the non-NaN scores in descending order, the earlier row first among equal
\* scores, then the positions of the NaN scores in row order, cut to n
RECURSIVE Descending(_, _)
Descending(scores, left) ==
  IF left = {} THEN <<>>
  ELSE LET best == CHOOSE i \in left :
                     \A j \in left : Greater(scores[i], scores[j]) \/
                                     (~Greater(scores[j], scores[i]) /\ i <= j)
       IN <<best>> \o Descending(scores, left \ {best})
FirstN(n, s) == IF n <= 0 THEN <<>> ELSE SubSeq(s, 1, IF n < Len(s) THEN n ELSE Len(s))
NlargestScoresDropNaN(n, scores) ==
  FirstN(n, Descending(scores, {i \in DOMAIN scores : ~scores[i].nan}))
NlargestScores(n, scores) ==
  FirstN(n, Descending(scores, {i \in DOMAIN scores : ~scores[i].nan}) \o
            SelectSeq(RangeIndex(Len(scores)), LAMBDA i : scores[i].nan))

\* _select_representative_subset: the score columns are dropped again, the
\* rows keep their index labels
SelectRepresentativeSubset(frame, scores, criteria) ==
  Take(frame, NlargestScores(Get(criteria, "max_rows", FilterConfig.max_rows), scores))

\* what a filter_data call gives back: a DataFilterOutput, or the exception
\* that left the call; scored tells whether _calculate_selection_scores ran
\* and selected how many rows _select_representative_subset had chosen
NoOutput(exc, didScore, final_data) ==
  [raised |-> exc, scored |-> didScore, selected |-> Len(final_data.rows),
   original_row_count |-> 0, filtered_row_count |-> 0, filtered_data |-> NoFilterFrame]
DataFilterOutput(original_count, final_data) ==
  [raised |-> "", scored |-> TRUE, selected |-> Len(final_data.rows),
   original_row_count |-> original_count,
   filtered_row_count |-> Len(final_data.rows), filtered_data |-> final_data]

\* filter_data: threshold filter, scoring, selection, then the rationale,
\* whose reduction ratio divides by the original row count
FilterDataResult(frame, criteria, rep) ==
  LET original_count == Len(frame.rows)
      filtered_data == ApplyBasicFilters(frame, criteria)
      scores == CalculateSelectionScores(filtered_data, criteria, rep)
      final_data == SelectRepresentativeSubset(filtered_data, scores, criteria)
  IN IF original_count = 0
     THEN NoOutput("ZeroDivisionError", TRUE, final_data)
     ELSE DataFilterOutput(original_count, final_data)

VARIABLES
  fdata,      \* the frame filter_data is called on
  fcriteria,  \* the filtering_criteria it is called with
  fpc,        \* "off": no filter agent; "ready": the agent is constructed
  outputs     \* what each filter_data call on (fdata, fcriteria) gave back

filterVars == <<fdata, fcriteria, fpc, outputs>>

FilterIdle ==
  /\ fdata = NoFilterFrame
  /\ fcriteria = <<>>
  /\ fpc = "off"
  /\ outputs = <<>>

FilterInit ==
  /\ fdata \in FilterFrames
  /\ fcriteria \in FilteringCriteria
  /\ fpc = "ready"
  /\ outputs = <<>>

\* the n-th filter_data call on the same frame and criteria
FilterDataCall(n) ==
  /\ fpc = "ready"
  /\ Len(outputs) = n - 1
  /\ \E rep \in [1..Len(ApplyBasicFilters(fdata, fcriteria).rows) -> RepresentativeDraws] :
       outputs' = Append(outputs, FilterDataResult(fdata, fcriteria, rep))
  /\ UNCHANGED <<fdata, fcriteria, fpc>>

FilterData == FilterDataCall(1)
FilterDataAgain == FilterDataCall(2)

\* -------------------------------------------------------- schema discovery
\* (SchemaDiscoveryAgent.discover_schema and
\* SchemaDiscovery._get_all_available_fields)

\* column names and exclude-list entries, character by character
CREATED_AT == <<"C", "R", "E", "A", "T", "E", "D", "_", "A", "T">>
CREATED_BY == <<"C", "R", "E", "A", "T", "E", "D", "_", "B", "Y">>
UPDATED_AT == <<"U", "P", "D", "A", "T", "E", "D", "_", "A", "T">>
created_at == <<"c", "r", "e", "a", "t", "e", "d", "_", "a", "t">>
SALES == <<"S", "A", "L", "E", "S">>
CREATED_STAR == <<"C", "R", "E", "A", "T", "E", "D", "_", "*">>
STAR_AT == <<"*", "_", "A", "T">>
sales == <<"s", "a", "l", "e", "s">>

ColumnNames == {CREATED_AT, CREATED_BY, UPDATED_AT, created_at, SALES}
ExcludeEntries == {CREATED_STAR, STAR_AT, UPDATED_AT, sales}

\* fnmatch.fnmatch(name, pat) where os.path.normcase leaves case alone:
\* * matches any run of characters, ? any one character, every other
\* character of these patterns matches itself
RECURSIVE FnMatch(_, _)
FnMatch(name, pat) ==
  IF pat = <<>> THEN name = <<>>
  ELSE IF Head(pat) = "*"
       THEN FnMatch(name, Tail(pat)) \/ (name # <<>> /\ FnMatch(Tail(name), pat))
  ELSE IF Head(pat) = "?"
       THEN name # <<>> /\ FnMatch(Tail(name), Tail(pat))
  ELSE name # <<>> /\ Head(name) = Head(pat) /\ FnMatch(Tail(name), Tail(pat))

HasStar(pat) == \E i \in DOMAIN pat : pat[i] = "*"

\* the columns one exclude-list entry removes: itself if it is a column,
\* otherwise, if it holds a *, every column it matches
ExcludedBy(columns, pat) ==
  IF pat \in columns THEN {pat}
  ELSE IF HasStar(pat) THEN {col \in columns : FnMatch(col, pat)}
  ELSE {}

\* _get_all_available_fields: what it returns (as a set; the code sorts it)
\* or the ValueError it raises on an empty frame
GetAllAvailableFields(columns, nrows, exclude) ==
  IF columns = {} \/ nrows = 0
  THEN [raised |-> "ValueError", fields |-> {}]
  ELSE [raised |-> "",
        fields |-> columns \ UNION {ExcludedBy(columns, pat) : pat \in exclude}]
NotCalled == [raised |-> "not called", fields |-> {}]

\* the agent's data files: unreadable, or a csv with a header and
\* 0..MaxSchemaRows rows, nulls[c] of them without a value in column c
AgentColumns == {CREATED_AT, UPDATED_AT, SALES}
Unreadable == [readable |-> FALSE, nrows |-> 0, nulls |-> <<>>]
CsvFiles ==
  UNION {[readable : {TRUE}, nrows : {n}, nulls : [cols -> 0..n]] :
           n \in 0..MaxSchemaRows, cols \in SUBSET AgentColumns}
DataSources == {Unreadable} \cup CsvFiles

\* config/field_metadata.yaml as _load_config_knowledge returns it: {} when
\* the file is missing or unreadable
NoKnowledge == <<>>
KnowledgeBases ==
  {NoKnowledge,
   [field_definitions |-> (SALES :> [purpose |-> "Revenue", tier |-> 1])],
   [field_definitions |-> (SALES :> [tier |-> 5] @@ UPDATED_AT :> [purpose |-> ""]),
    fields |-> (SALES :> [completeness |-> Frac(9, 10)])],
   [fields |-> [c \in AgentColumns |-> [completeness |-> Frac(1, 1)]]],
   [exclude_columns |-> {CREATED_STAR},
    field_definitions |-> [c \in AgentColumns |-> [purpose |-> "Known", tier |-> 2]],
    fields |-> [c \in AgentColumns |-> [completeness |-> Frac(1, 1)]]]}

\* 1 - (df[column].isnull().sum() / len(df)): numpy gives NaN for 0/0
Completeness(nulls, nrows) == IF nrows = 0 THEN NaN ELSE Frac(nrows - nulls, nrows)

\* the loop body of _discover_fresh_schema on a csv that was read: a column
\* already discovered keeps the metadata of the earlier file
FieldMetadata(completeness) ==
  [business_purpose |-> "", importance_tier |-> 3, completeness |-> completeness]
AnalyzeFile(discovered_fields, df) ==
  [c \in DOMAIN discovered_fields \cup DOMAIN df.nulls |->
     IF c \in DOMAIN discovered_fields THEN discovered_fields[c]
     ELSE FieldMetadata(Completeness(df.nulls[c], df.nrows))]

\* _merge_discovery_with_config
MergeDiscoveryWithConfig(discovered_fields, config_knowledge) ==
  LET config_fields == Get(config_knowledge, "field_definitions", <<>>)
  IN [c \in DOMAIN discovered_fields |->
        IF c \in DOMAIN config_fields
        THEN [discovered_fields[c] EXCEPT
                !.business_purpose = Get(config_fields[c], "purpose", @),
                !.importance_tier = Get(config_fields[c], "tier", @)]
        ELSE discovered_fields[c]]

\* Python's min(a, b): b if b < a, otherwise a (so a NaN a stays)
PyMin(a, b) == IF Greater(a, b) THEN b ELSE a
DivideBy(x, n) == IF x.nan THEN NaN ELSE Frac(x.num, x.den * n)

\* sum(field.completeness for field in fields.values())
RECURSIVE SumCompleteness(_, _)
SumCompleteness(fields, names) ==
  IF names = {} THEN Frac(0, 1)
  ELSE LET c == CHOOSE x \in names : TRUE
       IN Plus(fields[c].completeness, SumCompleteness(fields, names \ {c}))

\* _assess_data_quality
AssessDataQuality(field_metadata) ==
  IF DOMAIN field_metadata = {} THEN Frac(0, 1)
  ELSE LET n == Cardinality(DOMAIN field_metadata)
           avg_completeness == DivideBy(SumCompleteness(field_metadata, DOMAIN field_metadata), n)
           context_coverage ==
             Frac(Cardinality({c \in DOMAIN field_metadata :
                                 field_metadata[c].business_purpose # ""}), n)
       IN PyMin(Plus(Scale(7, avg_completeness), Scale(3, context_coverage)), Frac(1, 1))

\* min(confidence, 0.95)
CapNone(confidence) == confidence
Cap(confidence) == PyMin(confidence, Frac(19, 20))

\* _calculate_discovery_confidence
CalculateDiscoveryConfidence(discovered_fields, config_knowledge) ==
  IF DOMAIN discovered_fields = {} THEN Frac(0, 1)
  ELSE LET n == Cardinality(DOMAIN discovered_fields)
           avg_completeness ==
             DivideBy(SumCompleteness(discovered_fields, DOMAIN discovered_fields), n)
           config_fields == Get(config_knowledge, "fields", <<>>)
           enrichment_ratio ==
             Frac(Cardinality(DOMAIN discovered_fields \cap DOMAIN config_fields), n)
       IN Cap(Plus(Scale(6, avg_completeness), Scale(4, enrichment_ratio)))

\* abs(x - y) on completeness values, and x - y
SignedDiff(x, y) ==
  IF x.nan \/ y.nan THEN NaN ELSE Frac(x.num * y.den - y.num * x.den, x.den * y.den)
AbsDiff(x, y) ==
  IF x.nan \/ y.nan THEN NaN
  ELSE LET n == x.num * y.den - y.num * x.den
       IN Frac(IF n < 0 THEN -n ELSE n, x.den * y.den)

\* _identify_config_learning_opportunities: the names of the fields reported
\* as new and of the fields reported with a changed completeness
IdentifyConfigLearningOpportunities(discovered_fields, config_knowledge) ==
  LET config_fields == Get(config_knowledge, "fields", <<>>)
  IN [new_fields |-> {c \in DOMAIN discovered_fields : c \notin DOMAIN config_fields},
      updated_statistics |->
        {c \in DOMAIN discovered_fields \cap DOMAIN config_fields :
           Greater(AbsDiff(discovered_fields[c].completeness,
                           Get(config_fields[c], "completeness", Frac(1, 1))),
                   Frac(1, 10))}]
\* _save_learning_insights writes a learning file unless every list is empty
NoInsights == [saved |-> FALSE, new_fields |-> {}, updated_statistics |-> {}]
LearningInsights(discovered_fields, config_knowledge) ==
  LET learning_insights ==
        IdentifyConfigLearningOpportunities(discovered_fields, config_knowledge)
  IN [saved |-> learning_insights.new_fields # {} \/ learning_insights.updated_statistics # {},
      new_fields |-> learning_insights.new_fields,
      updated_statistics |-> learning_insights.updated_statistics]

\* the SchemaDiscoveryOutput discover_schema returns; the merge enriches
\* the FieldMetadata objects in place, so the confidence is computed on the
\* enriched fields
NoDiscovery ==
  [returned |-> FALSE, raised |-> "", total_fields |-> 0, field_metadata |-> <<>>,
   data_quality_score |-> Frac(0, 1), confidence_score |-> Frac(0, 1),
   business_context_available |-> FALSE]
SchemaDiscoveryOutput(discovered_fields, config_knowledge) ==
  LET enriched_metadata == MergeDiscoveryWithConfig(discovered_fields, config_knowledge)
  IN [returned |-> TRUE, raised |-> "",
      total_fields |-> Cardinality(DOMAIN enriched_metadata),
      field_metadata |-> enriched_metadata,
      data_quality_score |-> AssessDataQuality(enriched_metadata),
      confidence_score |-> CalculateDiscoveryConfidence(enriched_metadata, config_knowledge),
      business_context_available |-> DOMAIN config_knowledge # {}]

VARIABLES
  knowledge,   \* config/field_metadata.yaml as loaded
  spc,         \* "off", "fields": _get_all_available_fields is about to be
               \* called, "loop": discover_schema is reading its data_paths,
               \* "done"
  discovered,  \* discovered_fields of _discover_fresh_schema
  nsrc,        \* data_paths read so far
  nfail,       \* how many of them could not be read
  withRows,    \* every csv read so far had at least one row
  seen,        \* the columns of the csv files read so far
  sout,        \* what discover_schema returned
  fieldsArgs,  \* the frame and exclude list _get_all_available_fields got
  available,   \* what _get_all_available_fields gave back
  learned      \* the learning insights discover_schema found and saved

schemaVars == <<knowledge, spc, discovered, nsrc, nfail, withRows, seen, sout,
                fieldsArgs, available, learned>>

NoArgs == [columns |-> {}, nrows |-> 0, exclude |-> {}]

SchemaIdle ==
  /\ knowledge = NoKnowledge
  /\ spc = "off"
  /\ discovered = <<>>
  /\ nsrc = 0
  /\ nfail = 0
  /\ withRows = TRUE
  /\ seen = {}
  /\ sout = NoDiscovery
  /\ fieldsArgs = NoArgs
  /\ available = NotCalled
  /\ learned = NoInsights

SchemaInit ==
  /\ \/ spc = "fields" /\ knowledge = NoKnowledge
     \/ spc = "loop" /\ knowledge \in KnowledgeBases
  /\ discovered = <<>>
  /\ nsrc = 0
  /\ nfail = 0
  /\ withRows = TRUE
  /\ seen = {}
  /\ sout = NoDiscovery
  /\ fieldsArgs = NoArgs
  /\ available = NotCalled
  /\ learned = NoInsights

\* SchemaDiscovery._get_all_available_fields on a frame with the given
\* columns and zero or one rows, under the given exclude list
GetFields ==
  /\ spc = "fields"
  /\ \E columns \in SUBSET ColumnNames, nrows \in {0, 1}, exclude \in SUBSET ExcludeEntries :
       /\ fieldsArgs' = [columns |-> columns, nrows |-> nrows, exclude |-> exclude]
       /\ available' = GetAllAvailableFields(columns, nrows, exclude)
  /\ spc' = "done"
  /\ UNCHANGED <<knowledge, discovered, nsrc, nfail, withRows, seen, sout, learned>>

\* one iteration of the loop of _discover_fresh_schema: pd.read_csv raises
\* (logged, the file is skipped) or gives a frame whose new columns are added
ReadSource ==
  /\ spc = "loop"
  /\ nsrc < MaxSources
  /\ nsrc' = nsrc + 1
  /\ \E df \in DataSources :
       IF df.readable
       THEN /\ discovered' = AnalyzeFile(discovered, df)
            /\ seen' = seen \cup DOMAIN df.nulls
            /\ withRows' = (withRows /\ df.nrows > 0)
            /\ UNCHANGED nfail
       ELSE /\ nfail' = nfail + 1
            /\ UNCHANGED <<discovered, seen, withRows>>
  /\ UNCHANGED <<knowledge, spc, sout, fieldsArgs, available, learned>>

\* the rest of discover_schema once every data path has been tried
DiscoverSchema ==
  /\ spc = "loop"
  /\ sout' = SchemaDiscoveryOutput(discovered, knowledge)
  /\ learned' = LearningInsights(discovered, knowledge)
  /\ spc' = "done"
  /\ UNCHANGED <<knowledge, discovered, nsrc, nfail, withRows, seen, fieldsArgs, available>>

SchemaNext ==
  \/ GetFields
  \/ ReadSource
  \/ DiscoverSchema

\* ------------------------------------------------- question classification
\* src/agents/question_analyzer.py.  Text is a sequence of characters, so that
\* lower-casing and substring search are computed, not assumed.
LowerLetters ==
  <<"a", "b", "c", "d", "e", "f", "g", "h", "i", "j", "k", "l", "m",
    "n", "o", "p", "q", "r", "s", "t", "u", "v", "w", "x", "y", "z">>
UpperLetters ==
  <<"A", "B", "C", "D", "E", "F", "G", "H", "I", "J", "K", "L", "M",
    "N", "O", "P", "Q", "R", "S", "T", "U", "V", "W", "X", "Y", "Z">>
LowerChar(c) ==
  IF \E i \in DOMAIN UpperLetters : UpperLetters[i] = c
  THEN LowerLetters[CHOOSE i \in DOMAIN UpperLetters : UpperLetters[i] = c]
  ELSE c
UpperChar(c) ==
  IF \E i \in DOMAIN LowerLetters : LowerLetters[i] = c
  THEN UpperLetters[CHOOSE i \in DOMAIN LowerLetters : LowerLetters[i] = c]
  ELSE c
\* str.lower() and str.upper()
Lower(s) == [i \in DOMAIN s |-> LowerChar(s[i])]
Upper(s) == [i \in DOMAIN s |-> UpperChar(s[i])]
\* pattern in text
Contains(s, p) ==
  \E i \in 0..(Len(s) - Len(p)) : \A j \in DOMAIN p : s[i + j] = p[j]

\* QuestionType values, in the order _classify_question_type tests them
QuestionTypes ==
  <<"performance_analysis", "location_comparison", "trend_identification",
    "recommendation_generation">>
\* _load_question_patterns
QuestionPatterns ==
  "performance_analysis" :>
     {<<"w", "h", "i", "c", "h", " ", "l", "o", "c", "a", "t", "i", "o", "n", "s", " ", "n", "e", "e", "d", " ", "a", "t", "t", "e", "n", "t", "i", "o", "n">>,
      <<"u", "n", "d", "e", "r", "p", "e", "r", "f", "o", "r", "m", "i", "n", "g", " ", "l", "o", "c", "a", "t", "i", "o", "n", "s">>,
      <<"p", "e", "r", "f", "o", "r", "m", "a", "n", "c", "e", " ", "i", "s", "s", "u", "e", "s">>,
      <<"l", "o", "c", "a", "t", "i", "o", "n", "s", " ", "w", "i", "t", "h", " ", "p", "r", "o", "b", "l", "e", "m", "s">>}
  @@ "location_comparison" :>
     {<<"c", "o", "m", "p", "a", "r", "e", " ", "l", "o", "c", "a", "t", "i", "o", "n", "s">>,
      <<"t", "o", "p", " ", "v", "s", " ", "b", "o", "t", "t", "o", "m">>,
      <<"d", "i", "f", "f", "e", "r", "e", "n", "c", "e", "s", " ", "b", "e", "t", "w", "e", "e", "n">>,
      <<"b", "e", "s", "t", " ", "a", "n", "d", " ", "w", "o", "r", "s", "t">>}
  @@ "trend_identification" :>
     {<<"t", "r", "e", "n", "d", "s">>,
      <<"p", "a", "t", "t", "e", "r", "n", "s", " ", "o", "v", "e", "r", " ", "t", "i", "m", "e">>,
      <<"c", "h", "a", "n", "g", "e", "s", " ", "i", "n">>,
      <<"d", "e", "c", "l", "i", "n", "i", "n", "g", " ", "p", "e", "r", "f", "o", "r", "m", "a", "n", "c", "e">>}
  @@ "recommendation_generation" :>
     {<<"w", "h", "a", "t", " ", "s", "h", "o", "u", "l", "d", " ", "I", " ", "d", "o">>,
      <<"r", "e", "c", "o", "m", "m", "e", "n", "d", "a", "t", "i", "o", "n", "s">>,
      <<"a", "c", "t", "i", "o", "n", "s", " ", "t", "o", " ", "t", "a", "k", "e">>,
      <<"h", "o", "w", " ", "t", "o", " ", "i", "m", "p", "r", "o", "v", "e">>}

AnyPattern(category, text) ==
  \E pattern \in QuestionPatterns[category] : Contains(text, pattern)
\* _classify_question_type: the patterns are compared, as written, with the
\* lower-cased question
ClassifyQuestionType(question) ==
  LET question_lower == Lower(question) IN
  IF AnyPattern("performance_analysis", question_lower) THEN "performance_analysis"
  ELSE IF AnyPattern("location_comparison", question_lower) THEN "location_comparison"
  ELSE IF AnyPattern("trend_identification", question_lower) THEN "trend_identification"
  ELSE IF AnyPattern("recommendation_generation", question_lower)
       THEN "recommendation_generation"
  ELSE "performance_analysis"

\* the questions asked: nothing, a greeting, or one or two of the phrases in
\* either order, as written, upper-cased or lower-cased
AllPatterns == UNION {QuestionPatterns[QuestionTypes[i]] : i \in DOMAIN QuestionTypes}
Phrases == AllPatterns \cup {<<>>, <<"h", "e", "l", "l", "o">>}
Questions ==
  LET joined == {a \o <<" ">> \o b \o <<"?">> : a \in Phrases, b \in Phrases}
  IN  joined \cup {Upper(q) : q \in joined} \cup {Lower(q) : q \in joined}
NotAsked == <<>>
NotClassified == "none"

VARIABLES question, question_type

classifyVars == <<question, question_type>>
ClassifyIdle == question = NotAsked /\ question_type = NotClassified
ClassifyInit == question \in Questions /\ question_type = NotClassified
Classify ==
  /\ question_type = NotClassified
  /\ question_type' = ClassifyQuestionType(question)
  /\ UNCHANGED question

\* ------------------------------------------------ completion-response parsing
\* src/scripts/condition_3_test.py, call_claude_api.  A response text is a
\* sequence of symbols: the characters "{", "}", "1", "x" and " ", the
\* opening fence (three backticks and the word json), a bare fence (three
\* backticks), and a run of "[" nested deeper than the interpreter's recursion
\* limit.
FENCE_JSON == "fence json"
FENCE == "fence"
DEEP_BRACKETS == "[[[["
Symbols == {"{", "}", "1", "x", " ", FENCE_JSON, FENCE, DEEP_BRACKETS}
ResponseTexts == UNION {[1..n -> Symbols] : n \in 0..MaxTextLen}
NoText == <<"no text">>

\* str.find from a position and str.rfind, positions counted from 0, -1 when
\* the symbol does not occur; a search for the bare fence also finds the start
\* of an opening fence
Starts(sym, sub) == sym = sub \/ (sub = FENCE /\ sym = FENCE_JSON)
Find(s, sub, start) ==
  IF \E i \in (start + 1)..Len(s) : Starts(s[i], sub)
  THEN (CHOOSE i \in (start + 1)..Len(s) :
          Starts(s[i], sub) /\ \A j \in (start + 1)..(i - 1) : ~Starts(s[j], sub)) - 1
  ELSE -1
RFind(s, sub) ==
  IF \E i \in DOMAIN s : Starts(s[i], sub)
  THEN (CHOOSE i \in DOMAIN s :
          Starts(s[i], sub) /\ \A j \in (i + 1)..Len(s) : ~Starts(s[j], sub)) - 1
  ELSE -1
\* s[start:end] with a non-negative start; a negative end counts from the end
Slice(s, start, end) ==
  LET stop == IF end < 0 THEN (IF Len(s) + end < 0 THEN 0 ELSE Len(s) + end)
              ELSE (IF end > Len(s) THEN Len(s) ELSE end)
  IN  IF start >= stop THEN <<>> ELSE SubSeq(s, start + 1, stop)
RECURSIVE LStrip(_)
LStrip(s) == IF s # <<>> /\ Head(s) = " " THEN LStrip(Tail(s)) ELSE s
RECURSIVE RStrip(_)
RStrip(s) ==
  IF s # <<>> /\ s[Len(s)] = " " THEN RStrip(SubSeq(s, 1, Len(s) - 1)) ELSE s
Strip(s) == RStrip(LStrip(s))

\* the text json.loads is given
JsonText(response_text) ==
  IF Find(response_text, FENCE_JSON, 0) >= 0
  THEN LET json_start == Find(response_text, FENCE_JSON, 0) + 1
           json_end == Find(response_text, FENCE, json_start)
       IN  Strip(Slice(response_text, json_start, json_end))
  ELSE IF Find(response_text, "{", 0) >= 0 /\ Find(response_text, "}", 0) >= 0
  THEN Slice(response_text, Find(response_text, "{", 0), RFind(response_text, "}") + 1)
  ELSE response_text

\* json.loads on these texts: white space around one value, which is a number
\* (digits 1) or an empty object; the decoder recurses into each "[" before it
\* reads on, so a value that opens with the deep run ends in RecursionError
IsNumber(s) == s # <<>> /\ \A i \in DOMAIN s : s[i] = "1"
IsEmptyObject(s) ==
  /\ Len(s) >= 2 /\ s[1] = "{" /\ s[Len(s)] = "}"
  /\ \A i \in 2..(Len(s) - 1) : s[i] = " "
JsonLoads(json_text) ==
  LET s == Strip(json_text) IN
  IF s # <<>> /\ Head(s) = DEEP_BRACKETS THEN [exc |-> "RecursionError", value |-> <<>>]
  ELSE IF IsNumber(s) \/ IsEmptyObject(s) THEN [exc |-> "", value |-> s]
  ELSE [exc |-> "JSONDecodeError", value |-> <<>>]

NoApiResult ==
  [returned |-> FALSE, raised |-> FALSE, error |-> "", parsed |-> FALSE,
   value |-> <<>>, raw_response |-> <<>>, parsing_error |-> FALSE, raw_text |-> <<>>]
\* the record the outer handler returns
ApiError(e) == [NoApiResult EXCEPT !.returned = TRUE, !.error = e]
\* call_claude_api for what messages.create gives: a text, or an exception
CallClaudeApiResult(text) ==
  IF text = NoText THEN ApiError("APIError")
  ELSE LET loaded == JsonLoads(JsonText(text)) IN
       IF loaded.exc = "" THEN
         [NoApiResult EXCEPT !.returned = TRUE, !.parsed = TRUE,
                             !.value = loaded.value, !.raw_text = text]
       ELSE IF loaded.exc = "JSONDecodeError" THEN
         [NoApiResult EXCEPT !.returned = TRUE, !.raw_response = text,
                             !.parsing_error = TRUE, !.raw_text = text]
       ELSE ApiError(loaded.exc)

VARIABLES response_text, api_result

parseVars == <<response_text, api_result>>
ParseIdle == response_text = NoText /\ api_result = NoApiResult
ParseInit == response_text \in ResponseTexts \cup {NoText} /\ api_result = NoApiResult
CallClaudeApi ==
  /\ ~api_result.returned
  /\ api_result' = CallClaudeApiResult(response_text)
  /\ UNCHANGED response_text

\* ------------------------------------------------ configuration learning
\* src/scripts/config_learning_manager.py.  The knowledge-base document is
\* llm_columns_canonical.yaml; its backups and the learning files carry the
\* second of their creation in their names.
NoConfigFile == [exists |-> FALSE, version |-> 0, fields |-> <<>>]
\* a document holds a version (in tenths) and the completeness of its fields
ConfigDocument(version, fields) == [exists |-> TRUE, version |-> version, fields |-> fields]
DefaultVersion == 10
DefaultConfig == ConfigDocument(DefaultVersion, <<>>)
NoLearningFile == [exists |-> FALSE, new_fields |-> {}, updated_statistics |-> {}]
\* a learning file reports SALES as a new field (completeness 1/2) or a new
\* completeness (9/10) for it
LearningFiles ==
  {[exists |-> TRUE, new_fields |-> {SALES}, updated_statistics |-> {}],
   [exists |-> TRUE, new_fields |-> {}, updated_statistics |-> {SALES}]}
EmptyLearningDir == [t \in Clock |-> NoLearningFile]
NoBackups == [t \in Clock |-> NoConfigFile]

\* discover_learning_files: the files of the learning directory itself
DiscoverLearningFiles(dir) == {t \in Clock : dir[t].exists}
\* load_learning_insights
LoadLearningInsights(dir, learning_files) ==
  [new_fields |-> UNION {dir[t].new_fields : t \in learning_files},
   updated_statistics |-> UNION {dir[t].updated_statistics : t \in learning_files}]
\* load_current_config
LoadCurrentConfig(file) == IF file.exists THEN file ELSE DefaultConfig
\* generate_config_updates
GenerateConfigUpdates(insights, current_config) ==
  [new_field_definitions |-> insights.new_fields \ DOMAIN current_config.fields,
   updated_field_statistics |-> insights.updated_statistics]
\* apply_config_updates
ApplyConfigUpdates(updates, current_config) ==
  LET added == [f \in DOMAIN current_config.fields \cup updates.new_field_definitions |->
                  IF f \in DOMAIN current_config.fields THEN current_config.fields[f]
                  ELSE Frac(1, 2)]
      fields == [f \in DOMAIN added |->
                   IF f \in updates.updated_field_statistics THEN Frac(9, 10)
                   ELSE added[f]]
  IN  ConfigDocument(current_config.version + 1, fields)
\* save_updated_config: the backup is named after the second of the save
SaveUpdatedConfig(file, saved, updated_config, second) ==
  [config_file |-> updated_config,
   backups |-> IF file.exists THEN [saved EXCEPT ![second] = file] ELSE saved]
\* archive_processed_learning_files
ArchiveCopies(dir, archive, learning_files) ==
  [learning_dir |-> dir,
   processed |-> [t \in Clock |-> IF t \in learning_files THEN dir[t] ELSE archive[t]]]
ArchiveProcessedLearningFiles(dir, archive, learning_files) ==
  [learning_dir |-> [t \in Clock |-> IF t \in learning_files THEN NoLearningFile ELSE dir[t]],
   processed |-> [t \in Clock |-> IF t \in learning_files THEN dir[t] ELSE archive[t]]]

VARIABLES now, config_file, backups, learning_dir, processed, cycles, written, overwritten

managerVars ==
  <<now, config_file, backups, learning_dir, processed, cycles, written, overwritten>>
ManagerIdle ==
  /\ now = 0 /\ config_file = NoConfigFile /\ backups = NoBackups
  /\ learning_dir = EmptyLearningDir /\ processed = EmptyLearningDir
  /\ cycles = <<>> /\ written = 0 /\ overwritten = {}
ManagerInit ==
  /\ now = 0 /\ config_file \in {NoConfigFile, DefaultConfig} /\ backups = NoBackups
  /\ learning_dir = EmptyLearningDir /\ processed = EmptyLearningDir
  /\ cycles = <<>> /\ written = 0 /\ overwritten = {}

\* a second passes
Tick ==
  /\ now < MaxClock
  /\ now' = now + 1
  /\ UNCHANGED <<config_file, backups, learning_dir, processed, cycles, written, overwritten>>
\* a schema discovery saves schema_learning_<second>.json
SaveLearningInsights ==
  /\ written < MaxLearningFiles
  /\ \E file \in LearningFiles : learning_dir' = [learning_dir EXCEPT ![now] = file]
  /\ written' = written + 1
  /\ UNCHANGED <<now, config_file, backups, processed, cycles, overwritten>>
\* run_config_update_cycle; apply stands for auto_apply or the answer y
RunConfigUpdateCycle ==
  /\ Len(cycles) < MaxCycles
  /\ \E apply \in BOOLEAN :
       LET learning_files == DiscoverLearningFiles(learning_dir)
           insights == LoadLearningInsights(learning_dir, learning_files)
           current_config == LoadCurrentConfig(config_file)
           updates == GenerateConfigUpdates(insights, current_config)
           updated_config == ApplyConfigUpdates(updates, current_config)
           saved == SaveUpdatedConfig(config_file, backups, updated_config, now)
           archived == ArchiveProcessedLearningFiles(learning_dir, processed, learning_files)
       IN  IF learning_files = {} THEN
             /\ cycles' = Append(cycles, "no_updates")
             /\ UNCHANGED <<config_file, backups, learning_dir, processed, overwritten>>
           ELSE IF apply THEN
             /\ config_file' = saved.config_file
             /\ backups' = saved.backups
             /\ learning_dir' = archived.learning_dir
             /\ processed' = archived.processed
             /\ overwritten' =
                  IF config_file.exists THEN overwritten \cup {config_file} ELSE overwritten
             /\ cycles' = Append(cycles, "success")
           ELSE
             /\ cycles' = Append(cycles, "cancelled")
             /\ UNCHANGED <<config_file, backups, learning_dir, processed, overwritten>>
  /\ UNCHANGED <<now, written>>
ManagerNext == Tick \/ SaveLearningInsights \/ RunConfigUpdateCycle

\* ------------------------------------------------------- threshold filter
\* one _apply_basic_filters call seen from its caller: the frame the call
\* returns and the caller's frame after the call (the call works on a copy)
ApplyBasicFiltersCall(frame, criteria) ==
  [data |-> frame, filtered_data |-> ApplyBasicFilters(frame, criteria)]
NotFiltered == [done |-> FALSE, frame |-> NoFilterFrame]

VARIABLES thresholded, given

thresholdVars == <<thresholded, given>>
ThresholdIdle == thresholded = NotFiltered /\ given = NoFilterFrame
ThresholdInit == thresholded = NotFiltered /\ given = fdata
ApplyFilters ==
  /\ fpc = "ready"
  /\ ~thresholded.done
  /\ LET call == ApplyBasicFiltersCall(fdata, fcriteria)
     IN  /\ fdata' = call.data
         /\ thresholded' = [done |-> TRUE, frame |-> call.filtered_data]
  /\ UNCHANGED <<fcriteria, fpc, outputs, given>>

\* ------------------------------------------------ reference schema context
\* SchemaDiscovery.build_schema_context, the body of its loop for one field
\* that has values: the field's type and samples computed from the column,
\* then the enrichment from the knowledge base's field_descriptions
Dtypes == {"int64", "float64", "bool", "object"}
\* _map_pandas_dtype_to_json_type
MapPandasDtypeToJsonType(dtype) ==
  IF dtype \in {"int64", "float64"} THEN "number"
  ELSE IF dtype = "bool" THEN "boolean"
  ELSE "string"
SeriesHeads == {<<"a">>, <<"a", "b">>}
\* what is computed from the column alone
FreshFieldInfo(dtype, head) ==
  LET field_type == MapPandasDtypeToJsonType(dtype)
  IN [type |-> field_type,
      sample_values |-> IF field_type = "number" THEN <<>> ELSE head,
      business_purpose |-> ""]
\* field_descriptions entries; the empty one stands for a field without entry
NoDescription == <<>>
FieldDescriptions ==
  {NoDescription,
   [business_purpose |-> "Revenue"],
   [type |-> "string"],
   [sample_values |-> <<"kb">>],
   [business_purpose |-> "Revenue", type |-> "number", sample_values |-> <<"kb">>]}
\* get_business_purpose, the code-based fallback; the function is imported
\* from a module outside src, so its value is left opaque
CodeBusinessPurpose == "code-based"
BuildFieldInfo(dtype, head, desc) ==
  LET fresh == FreshFieldInfo(dtype, head)
  IN IF desc # NoDescription
     THEN [type |-> Get(desc, "type", fresh.type),
           sample_values |-> Get(desc, "sample_values", fresh.sample_values),
           business_purpose |-> Get(desc, "business_purpose", "")]
     ELSE [fresh EXCEPT !.business_purpose = CodeBusinessPurpose]
NoFieldInfo == [type |-> "", sample_values |-> <<>>, business_purpose |-> ""]
NoColumn == [dtype |-> "", head |-> <<>>, desc |-> NoDescription]

VARIABLES cpc, column, field_info

contextVars == <<cpc, column, field_info>>
ContextIdle == cpc = "off" /\ column = NoColumn /\ field_info = NoFieldInfo
ContextInit ==
  /\ cpc = "ready"
  /\ column \in [dtype : Dtypes, head : SeriesHeads, desc : FieldDescriptions]
  /\ field_info = NoFieldInfo
BuildSchemaContext ==
  /\ cpc = "ready"
  /\ field_info' = BuildFieldInfo(column.dtype, column.head, column.desc)
  /\ cpc' = "done"
  /\ UNCHANGED column

\* ---------------------------------------------------------- specifications
vars == <<clock, config, agents, fs, pc, cur, runNo, runLog, dataFiles, results,
          filtered, sent, attempts, billed, trace, raised, ret,
          data, npc, priorityNorm, volumeNorm,
          fdata, fcriteria, fpc, outputs,
          knowledge, spc, discovered, nsrc, nfail, withRows, seen, sout,
          fieldsArgs, available, learned,
          question, question_type,
          response_text, api_result,
          now, config_file, backups, learning_dir, processed, cycles, written, overwritten,
          thresholded, given,
          cpc, column, field_info>>

Init == PipeInit /\ NormIdle /\ FilterIdle /\ SchemaIdle /\ ClassifyIdle /\ ParseIdle /\ ManagerIdle
    /\ ThresholdIdle /\ ContextIdle
Next == PipeNext /\ UNCHANGED normVars /\ UNCHANGED filterVars /\ UNCHANGED schemaVars
    /\ UNCHANGED classifyVars /\ UNCHANGED parseVars /\ UNCHANGED managerVars
    /\ UNCHANGED thresholdVars /\ UNCHANGED contextVars
Spec == Init /\ [][Next]_vars

\* several agents, constructed at any seconds, sharing the results directory
InitAgents == AgentsInit /\ NormIdle /\ FilterIdle /\ SchemaIdle /\ ClassifyIdle /\ ParseIdle
    /\ ManagerIdle /\ ThresholdIdle /\ ContextIdle
NextAgents ==
  (CreateAgent \/ PipeNext) /\ UNCHANGED normVars /\ UNCHANGED filterVars /\ UNCHANGED schemaVars
    /\ UNCHANGED classifyVars /\ UNCHANGED parseVars /\ UNCHANGED managerVars
    /\ UNCHANGED thresholdVars /\ UNCHANGED contextVars
SpecAgents == InitAgents /\ [][NextAgents]_vars

InitNorm == PipeInit /\ config = [k \in Stages |-> TRUE] /\ NormInit /\ FilterIdle /\ SchemaIdle
    /\ ClassifyIdle /\ ParseIdle /\ ManagerIdle /\ ThresholdIdle /\ ContextIdle
NextNorm == NormNext /\ UNCHANGED pipeVars /\ UNCHANGED filterVars /\ UNCHANGED schemaVars
    /\ UNCHANGED classifyVars /\ UNCHANGED parseVars /\ UNCHANGED managerVars
    /\ UNCHANGED thresholdVars /\ UNCHANGED contextVars
SpecNorm == InitNorm /\ [][NextNorm]_vars

\* one filter_data call on any frame with any criteria
PipeIdle == PipeInit /\ config = [k \in Stages |-> TRUE]
InitFilter == PipeIdle /\ NormIdle /\ FilterInit /\ SchemaIdle /\ ClassifyIdle /\ ParseIdle
    /\ ManagerIdle /\ ThresholdIdle /\ ContextIdle
NextFilter == FilterData /\ UNCHANGED pipeVars /\ UNCHANGED normVars /\ UNCHANGED schemaVars
    /\ UNCHANGED classifyVars /\ UNCHANGED parseVars /\ UNCHANGED managerVars
    /\ UNCHANGED thresholdVars /\ UNCHANGED contextVars
SpecFilter == InitFilter /\ [][NextFilter]_vars

\* two filter_data calls on the same frame with the same criteria
NextFilterTwice ==
  (FilterData \/ FilterDataAgain) /\ UNCHANGED pipeVars /\ UNCHANGED normVars /\ UNCHANGED schemaVars
    /\ UNCHANGED classifyVars /\ UNCHANGED parseVars /\ UNCHANGED managerVars
    /\ UNCHANGED thresholdVars /\ UNCHANGED contextVars
SpecFilterTwice == InitFilter /\ [][NextFilterTwice]_vars

\* one schema-discovery call: _get_all_available_fields on any frame, or
\* discover_schema on any list of data paths with any knowledge base
InitSchema == PipeIdle /\ NormIdle /\ FilterIdle /\ SchemaInit /\ ClassifyIdle /\ ParseIdle
    /\ ManagerIdle /\ ThresholdIdle /\ ContextIdle
NextSchema == SchemaNext /\ UNCHANGED pipeVars /\ UNCHANGED normVars /\ UNCHANGED filterVars
    /\ UNCHANGED classifyVars /\ UNCHANGED parseVars /\ UNCHANGED managerVars
    /\ UNCHANGED thresholdVars /\ UNCHANGED contextVars
SpecSchema == InitSchema /\ [][NextSchema]_vars


\* one _classify_question_type call on any question
InitClassify == PipeIdle /\ NormIdle /\ FilterIdle /\ SchemaIdle /\ ClassifyInit /\ ParseIdle
    /\ ManagerIdle /\ ThresholdIdle /\ ContextIdle
NextClassify ==
  Classify /\ UNCHANGED pipeVars /\ UNCHANGED normVars /\ UNCHANGED filterVars
    /\ UNCHANGED schemaVars /\ UNCHANGED parseVars /\ UNCHANGED managerVars
    /\ UNCHANGED thresholdVars /\ UNCHANGED contextVars
SpecClassify == InitClassify /\ [][NextClassify]_vars


\* one call_claude_api call, whatever the completion service gives
InitParse ==
  PipeIdle /\ NormIdle /\ FilterIdle /\ SchemaIdle /\ ClassifyIdle /\ ParseInit /\ ManagerIdle
    /\ ThresholdIdle /\ ContextIdle
NextParse ==
  CallClaudeApi /\ UNCHANGED pipeVars /\ UNCHANGED normVars /\ UNCHANGED filterVars
    /\ UNCHANGED schemaVars /\ UNCHANGED classifyVars /\ UNCHANGED managerVars
    /\ UNCHANGED thresholdVars /\ UNCHANGED contextVars
SpecParse == InitParse /\ [][NextParse]_vars


\* update cycles of the configuration learning manager, run at any seconds
\* while schema discoveries leave learning files
InitManager ==
  PipeIdle /\ NormIdle /\ FilterIdle /\ SchemaIdle /\ ClassifyIdle /\ ParseIdle
    /\ ManagerInit /\ ThresholdIdle /\ ContextIdle
NextManager ==
  ManagerNext /\ UNCHANGED pipeVars /\ UNCHANGED normVars /\ UNCHANGED filterVars
    /\ UNCHANGED schemaVars /\ UNCHANGED classifyVars /\ UNCHANGED parseVars
    /\ UNCHANGED thresholdVars /\ UNCHANGED contextVars
SpecManager == InitManager /\ [][NextManager]_vars


\* one _apply_basic_filters call on any frame with any criteria
InitThreshold ==
  PipeIdle /\ NormIdle /\ FilterInit /\ SchemaIdle /\ ClassifyIdle /\ ParseIdle
    /\ ManagerIdle /\ ThresholdInit /\ ContextIdle
NextThreshold ==
  ApplyFilters /\ UNCHANGED pipeVars /\ UNCHANGED normVars /\ UNCHANGED schemaVars
    /\ UNCHANGED classifyVars /\ UNCHANGED parseVars /\ UNCHANGED managerVars
    /\ UNCHANGED contextVars
SpecThreshold == InitThreshold /\ [][NextThreshold]_vars


\* one schema discovery through either entry point: the agent's
\* discover_schema (or the reference's field listing), or the reference's
\* build_schema_context
InitDiscovery ==
  PipeIdle /\ NormIdle /\ FilterIdle /\ ClassifyIdle /\ ParseIdle /\ ManagerIdle
    /\ ThresholdIdle
    /\ \/ SchemaInit /\ ContextIdle
       \/ SchemaIdle /\ ContextInit
NextDiscovery ==
  /\ \/ SchemaNext /\ UNCHANGED contextVars
     \/ BuildSchemaContext /\ UNCHANGED schemaVars
  /\ UNCHANGED pipeVars /\ UNCHANGED normVars /\ UNCHANGED filterVars
  /\ UNCHANGED classifyVars /\ UNCHANGED parseVars /\ UNCHANGED managerVars
  /\ UNCHANGED thresholdVars
SpecDiscovery == InitDiscovery /\ [][NextDiscovery]_vars

TypeOK ==
  /\ clock \in Clock
  /\ pc \in {"idle", "s1", "c1", "s2", "c2", "s3", "c3", "s4", "c4", "agg", "done"}
  /\ runNo \in 0..MaxRuns
  /\ \A k \in Stages : results[k].kind \in {"none", "empty", "ok", "error"}

\* ------------------------------------------------------------------ claims
Returned == pc = "done" /\ ret.returned
InTrace(e, k) == \E i \in DOMAIN trace : trace[i] = Ev(e, k)
IsPrefix(s, t) == Len(s) <= Len(t) /\ \A i \in DOMAIN s : s[i] = t[i]
ExpectedTrace ==
  <<Ev("begin", 1), Ev("end", 1), Ev("begin", 2), Ev("end", 2),
    Ev("begin", 3), Ev("end", 3), Ev("begin", 4), Ev("end", 4)>>

\* C1: in every run the stages begin and return in the order 1, 2, 3, 4:
\* the events seen so far are a prefix of begin1 end1 ... begin4 end4 (no
\* stage starts before its predecessor returned, none runs twice or out of
\* order), and a run that returns a complete record has run all four.
C1_StagesInOrder ==
  /\ IsPrefix(trace, ExpectedTrace)
  /\ (Returned /\ ret.success) => trace = ExpectedTrace
C1_Witness == Returned /\ ret.success /\ Len(trace) = 8 /\ results[2].kind = "error"

\* C2: a run in which no exception escaped and some stage failed (its data
\* load failed or its completion call raised) returns a complete record
\* that holds the error in the failed stage's slot, and every later stage
\* was still invoked.
C2_FailureRecordedAndPipelineContinues ==
  (Returned /\ ~raised) =>
     /\ ret.success
     /\ \A k \in Stages :
          results[k].kind = "error" =>
            /\ ret.stages[k] = results[k]
            /\ ret.stages[k].kind = "error"
            /\ \A j \in (k + 1)..4 : InTrace("begin", j) /\ ret.stages[j].kind # "none"
C2_Witness ==
  /\ Returned /\ ~raised
  /\ results[1].kind = "error" /\ results[1].cause = "completion"
  /\ results[3].kind = "error" /\ results[3].cause = "load"
  /\ results[4].kind = "error"

NoDataNarrative(res) == res.kind = "ok" /\ res.cause = "no data available"

\* C3 (as claimed): when stage 4 runs with no filtered rows available from
\* this run (stage 3 failed, was disabled or selected nothing) its result is
\* an explicit no-data narrative, not an error.
C3_NoDataNarrative ==
  (/\ config[4]
   /\ InTrace("end", 4)
   /\ results[3].kind # "ok" \/ filtered.rows = <<>>)
    => NoDataNarrative(results[4])

\* C4 (as claimed): the rows stage 4 puts into its prompt are the rows
\* stage 3 selected in the same run.
C4_Stage4UsesThisRunsRows ==
  pc = "c4" =>
     /\ results[3].kind = "ok"
     /\ filtered.computed
     /\ sent.rows = filtered.rows

\* C5 (as claimed): when run_complete_pipeline has returned, the session
\* directory holds one artifact per stage and the consolidated artifact,
\* whether or not stages failed.  Stated here for the runs the claim is
\* surest about: every stage enabled and no exception escaped.
C5_AllArtifactsPersisted ==
  (Returned /\ ret.success /\ \A k \in Stages : config[k]) =>
     \A f \in {"stage_1", "stage_2", "stage_3", "stage_4", "complete"} :
        fs[ret.session_id][f] # NoFile

\* C6 (as claimed): any two agents, and any two runs, have distinct session
\* identifiers.
C6_SessionIdsDistinct ==
  /\ \A a, b \in DOMAIN agents : a # b => agents[a] # agents[b]
  /\ \A i, j \in DOMAIN runLog : i # j => runLog[i] # runLog[j]

ArtifactsOf(k) ==
  CASE k = 1 -> {"data_discovery", "stage_1"}
    [] k = 2 -> {"stage_2"}
    [] k = 3 -> {"stage_3", "filtered_data"}
    [] k = 4 -> {"stage_4", "final_output"}
C7_Step ==
  \A k \in Stages :
     pc \in {BeginPc(k), CallPc(k)} =>
        /\ \A j \in Stages \ {k} : \A f \in ArtifactsOf(j) : \A s \in Clock :
              fs'[s][f] = fs[s][f]
        /\ results'[k].kind = "error" =>
              \A j \in 1..(k - 1) : \A f \in ArtifactsOf(j) : \A s \in Clock :
                 fs'[s][f] = fs[s][f]

\* C7: a step of stage k leaves the artifacts of every other stage in every
\* session directory as they were; a step in which stage k (k in 2..4)
\* fails leaves the artifacts written by stages 1..k-1 unchanged.
C7_EarlierArtifactsUntouched == [][C7_Step]_vars
C7_Witness ==
  /\ pc = "s4"
  /\ results[1].kind = "ok" /\ results[2].kind = "ok"
  /\ results[3].kind = "error" /\ results[3].cause = "completion"
  /\ fs[Sid]["stage_1"] # NoFile /\ fs[Sid]["stage_2"] # NoFile

RetryAttempts == 3

\* C9 (as claimed): a stage records a completion-service error only after
\* it retried the call a bounded number of times.
C9_RetriesBeforeError ==
  \A k \in Stages :
     (results[k].kind = "error" /\ results[k].cause = "completion") =>
        (attempts[k] > 1 /\ attempts[k] <= 1 + RetryAttempts)

InUnit(x) == ~x.nan /\ 0 <= x.num /\ x.num <= x.den
IsHalf(x) == ~x.nan /\ 2 * x.num = x.den

\* C10 (as claimed): every normalized priority and volume score lies in
\* [0,1], and is exactly 0.5 for every row when all values of the column
\* are equal.
C10_NormalizedScores ==
  /\ npc \in {"priority", "scored"} =>
       /\ \A i \in DOMAIN priorityNorm : InUnit(priorityNorm[i])
       /\ (\A i, j \in DOMAIN data.rows :
              data.rows[i].priority_score = data.rows[j].priority_score)
            => \A i \in DOMAIN priorityNorm : IsHalf(priorityNorm[i])
  /\ npc = "scored" =>
       /\ \A i \in DOMAIN volumeNorm : InUnit(volumeNorm[i])
       /\ (\A i, j \in DOMAIN data.rows :
              data.rows[i].sales_volume = data.rows[j].sales_volume)
            => \A i \in DOMAIN volumeNorm : IsHalf(volumeNorm[i])

\* the effective settings of the call, and the rows that pass the thresholds
Weights == Get(fcriteria, "selection_weights", FilterConfig.selection_weights)
MaxRows == Get(fcriteria, "max_rows", FilterConfig.max_rows)
Passing == Len(ApplyBasicFilters(fdata, fcriteria).rows)
SumsToOne(w) == w.representative + w.priority_score + w.sales_volume = 10
Smaller(a, b) == IF a < b THEN a ELSE b

\* C11 (as claimed): a filter_data call whose three selection weights do
\* not sum to 1.0 ends with an InvalidWeightsError, raised before any row
\* was scored.  Stated for frames that have rows.
C11_InvalidWeightsRejected ==
  \A n \in DOMAIN outputs :
     (~SumsToOne(Weights) /\ Len(fdata.rows) > 0) =>
        outputs[n].raised = "InvalidWeightsError" /\ ~outputs[n].scored

\* C12 (as claimed): two filter_data calls on the same frame with the same
\* criteria give back the same rows in the same order.
C12_Deterministic ==
  Len(outputs) = 2 =>
     /\ outputs[1].raised = outputs[2].raised
     /\ outputs[1].filtered_data = outputs[2].filtered_data

\* C13: the number of rows a filter_data call selects is min(N, number of
\* rows passing the threshold filter), N the max_rows in force; when N is
\* at least that number every passing row is selected; the record it
\* returns reports that number as filtered_row_count.
C13_SelectedCount ==
  \A n \in DOMAIN outputs :
     /\ outputs[n].selected = Smaller(MaxRows, Passing)
     /\ MaxRows >= Passing => outputs[n].selected = Passing
     /\ outputs[n].raised = "" =>
          /\ outputs[n].filtered_row_count = Smaller(MaxRows, Passing)
          /\ Len(outputs[n].filtered_data.rows) = outputs[n].filtered_row_count
C13_Witness ==
  /\ Len(outputs) = 1 /\ outputs[1].raised = ""
  /\ Passing = 2 /\ MaxRows = 1 /\ outputs[1].filtered_row_count = 1
  /\ fdata.hasVolume /\ fdata.rows[1].sales_volume = fdata.rows[2].sales_volume

AllOnPriority == [representative |-> 0, priority_score |-> 10, sales_volume |-> 0]

\* C14 (as claimed): with all weight on priority and N not larger than the
\* row count of the frame, filter_data returns exactly N rows, in
\* descending order of priority_score, none of them with a lower
\* priority_score than a row left out.  Stated for frames that have rows.
C14_TopNByPriority ==
  \A n \in DOMAIN outputs :
     (/\ Weights = AllOnPriority
      /\ fdata.hasPriority
      /\ Len(fdata.rows) > 0
      /\ MaxRows <= Len(fdata.rows)) =>
        LET out == outputs[n].filtered_data
        IN /\ outputs[n].raised = ""
           /\ Len(out.rows) = MaxRows
           /\ \A i, j \in DOMAIN out.rows :
                 i < j => out.rows[i].priority_score >= out.rows[j].priority_score
           /\ \A i \in DOMAIN out.rows : \A k \in DOMAIN fdata.rows :
                 (\A j \in DOMAIN out.index : out.index[j] # k) =>
                    fdata.rows[k].priority_score <= out.rows[i].priority_score

\* C15: every row filter_data returns is a row of the input frame, under
\* its original index label and with the input's values; no input row is
\* returned twice; filtered_row_count never exceeds original_row_count.
C15_RowsAreInputRows ==
  \A n \in DOMAIN outputs :
     LET out == outputs[n].filtered_data
     IN /\ DOMAIN out.index = DOMAIN out.rows
        /\ \A j \in DOMAIN out.rows :
              /\ out.index[j] \in DOMAIN fdata.rows
              /\ out.rows[j] = fdata.rows[out.index[j]]
        /\ \A i, j \in DOMAIN out.rows : i # j => out.index[i] # out.index[j]
        /\ outputs[n].filtered_row_count <= outputs[n].original_row_count
        /\ outputs[n].raised = "" =>
              /\ outputs[n].original_row_count = Len(fdata.rows)
              /\ outputs[n].filtered_row_count = Len(out.rows)
C15_Witness ==
  /\ Len(outputs) = 1 /\ outputs[1].raised = ""
  /\ Len(fdata.rows) = 2 /\ Passing = 1
  /\ outputs[1].filtered_data.index = <<2>>
  /\ outputs[1].filtered_data.rows = <<fdata.rows[2]>>

\* C16 (as claimed): a filter_data call in which no row passes the
\* threshold filter (every row is below a threshold, or the frame has no
\* rows) returns a record with zero rows and raises nothing.
C16_EmptyResultNoError ==
  \A n \in DOMAIN outputs :
     Passing = 0 =>
        /\ outputs[n].raised = ""
        /\ outputs[n].filtered_row_count = 0
        /\ outputs[n].filtered_data.rows = <<>>

\* the columns that match no entry of an exclude list, an entry matching a
\* column that equals it or that its *-glob covers, case-sensitively
NotExcluded(columns, exclude) ==
  {c \in columns : \A pat \in exclude : c # pat /\ ~FnMatch(c, pat)}

\* C17 (as claimed): the field set of either entry point is exactly the set
\* of data columns that match no exclude-list entry: the list
\* _get_all_available_fields returns, and the fields of the result of
\* discover_schema under the exclude_columns of its knowledge base.
C17_FieldSetRespectsExcludeList ==
  /\ available.raised = "" =>
       available.fields = NotExcluded(fieldsArgs.columns, fieldsArgs.exclude)
  /\ sout.returned =>
       DOMAIN sout.field_metadata = NotExcluded(seen, Get(knowledge, "exclude_columns", {}))

\* C18 (as claimed): a discover_schema call that tried at least one data
\* path and could read some of them returns the fields of every file it
\* could read; if it could read none it ends with an EmptyDatasetError and
\* returns nothing.
C18_SkipUnreadableSources ==
  (spc = "done" /\ nsrc > 0) =>
     IF nfail = nsrc
     THEN sout.raised = "EmptyDatasetError" /\ ~sout.returned
     ELSE sout.returned /\ DOMAIN sout.field_metadata = seen

AtMost(x, y) == ~x.nan /\ ~y.nan /\ x.num * y.den <= y.num * x.den

\* C19: for every knowledge base and every list of data paths whose
\* readable files all have at least one row, the result of discover_schema
\* has a data_quality_score in [0,1] and a confidence_score in [0,0.95].
C19_ScoresInRange ==
  (sout.returned /\ withRows) =>
     /\ InUnit(sout.data_quality_score)
     /\ AtMost(Frac(0, 1), sout.confidence_score)
     /\ AtMost(sout.confidence_score, Frac(19, 20))
C19_Witness ==
  /\ sout.returned /\ withRows /\ nfail = 1 /\ nsrc = 2
  /\ sout.total_fields = 2
  /\ sout.confidence_score = Frac(19, 20)
  /\ AtMost(sout.data_quality_score, Frac(7, 10))
  /\ \A c \in DOMAIN sout.field_metadata : sout.field_metadata[c].business_purpose = ""

\* C20 (as claimed): every FieldMetadata of a discover_schema result has a
\* completeness in [0,1] and an importance_tier of 1, 2 or 3, whatever the
\* readable files (a header without rows included) and the knowledge base.
C20_FieldMetadataInRange ==
  sout.returned =>
     \A c \in DOMAIN sout.field_metadata :
        /\ InUnit(sout.field_metadata[c].completeness)
        /\ sout.field_metadata[c].importance_tier \in {1, 2, 3}

MatchesIgnoringCase(category, text) ==
  \E pattern \in QuestionPatterns[category] : Contains(Lower(text), Lower(pattern))
FirstMatchingCategory(text) ==
  IF \E i \in DOMAIN QuestionTypes : MatchesIgnoringCase(QuestionTypes[i], text)
  THEN QuestionTypes[CHOOSE i \in DOMAIN QuestionTypes :
         /\ MatchesIgnoringCase(QuestionTypes[i], text)
         /\ \A j \in 1..(i - 1) : ~MatchesIgnoringCase(QuestionTypes[j], text)]
  ELSE "performance_analysis"

\* C21: the type returned for a question is the first category, in the order
\* performance analysis, location comparison, trend identification,
\* recommendation generation, one of whose patterns occurs in the question as
\* a substring when letter case is ignored, and performance analysis when no
\* pattern occurs; it is always one of the four supported types.
C21_FirstMatchingCategory ==
  question_type # NotClassified =>
    /\ question_type = FirstMatchingCategory(question)
    /\ \E i \in DOMAIN QuestionTypes : question_type = QuestionTypes[i]

ValidJson(s) == IsNumber(Strip(s)) \/ IsEmptyObject(Strip(s))

\* C22: for every text the completion service returns, call_claude_api
\* returns without raising; when the text json.loads is given (the whole text
\* or its embedded JSON block) is not valid JSON, the parsed response is the
\* record that carries the raw text together with a parsing_error field.
C22_UnparseableTextKept ==
  (api_result.returned /\ response_text # NoText) =>
    /\ ~api_result.raised
    /\ ~ValidJson(JsonText(response_text)) =>
         /\ api_result.parsing_error
         /\ api_result.raw_response = response_text

\* C23: whenever the update overwrites an existing knowledge-base document, a
\* backup copy holding the prior content was created before the overwrite, and
\* the prior version is never lost: every version that was overwritten is held
\* by a backup file.
C23_PriorVersionKept ==
  \A prior \in overwritten : \E t \in Clock : backups[t] = prior

ThresholdFiltered == ApplyBasicFilters(fdata, fcriteria)
ConstantPriority(frame) ==
  /\ frame.hasPriority
  /\ \A i, j \in DOMAIN frame.rows : frame.rows[i].priority_score = frame.rows[j].priority_score

\* C24 (as claimed): rows with equal selection score keep their original
\* order: when the priority column of the threshold-filtered frame is
\* constant, every row's normalized priority score is 0.5 and, with all
\* weight on priority, filter_data returns the first N rows of the
\* threshold-filtered frame in their original order.  Stated for frames that
\* have rows.
C24_TiesKeepOriginalOrder ==
  \A n \in DOMAIN outputs :
     (Len(fdata.rows) > 0 /\ ConstantPriority(ThresholdFiltered)) =>
        /\ \A i \in DOMAIN ThresholdFiltered.rows :
              IsHalf(NormalizePriorityScore(ThresholdFiltered)[i])
        /\ Weights = AllOnPriority =>
              /\ outputs[n].raised = ""
              /\ outputs[n].filtered_data.index = FirstN(MaxRows, ThresholdFiltered.index)
              /\ outputs[n].filtered_data.rows = FirstN(MaxRows, ThresholdFiltered.rows)

MinPriority == Get(fcriteria, "min_priority_score", FilterConfig.min_priority_score)
MinVolume == Get(fcriteria, "min_sales_volume", FilterConfig.min_sales_volume)
AtOrAboveThresholds(row) ==
  /\ given.hasPriority => row.priority_score >= MinPriority
  /\ given.hasVolume => row.sales_volume >= MinVolume
KeptPositions ==
  SelectSeq(RangeIndex(Len(given.rows)), LAMBDA i : AtOrAboveThresholds(given.rows[i]))

\* C25: the threshold filter keeps exactly the rows that are at or above the
\* minimum on every threshold column the frame has, in their order and under
\* their index labels; a threshold whose column is absent is not applied; and
\* the frame the filter was called on is left unmodified.
C25_ThresholdFilter ==
  thresholded.done =>
    /\ thresholded.frame.index = [j \in DOMAIN KeptPositions |-> given.index[KeptPositions[j]]]
    /\ thresholded.frame.rows = [j \in DOMAIN KeptPositions |-> given.rows[KeptPositions[j]]]
    /\ thresholded.frame.hasPriority = given.hasPriority
    /\ thresholded.frame.hasVolume = given.hasVolume
    /\ fdata = given
C25_Witness ==
  /\ thresholded.done
  /\ Len(given.rows) = 2 /\ Len(thresholded.frame.rows) = 1
  /\ given.hasPriority /\ ~given.hasVolume
  /\ given.rows[2].priority_score = MinPriority
  /\ thresholded.frame.index = <<2>>

\* C26 (as claimed): the enrichment from the knowledge base changes only the
\* business attributes; the values computed from the data (completeness in
\* discover_schema; data type and sample values in build_schema_context) are
\* the freshly computed ones in every discovery entry point.
C26_MergeKeepsFreshStatistics ==
  /\ sout.returned =>
       \A c \in DOMAIN discovered :
          sout.field_metadata[c].completeness = discovered[c].completeness
  /\ cpc = "done" =>
       /\ field_info.type = FreshFieldInfo(column.dtype, column.head).type
       /\ field_info.sample_values = FreshFieldInfo(column.dtype, column.head).sample_values

KnownFields == Get(knowledge, "fields", <<>>)
\* |a - b| > 1/10 for two completeness values that are numbers
DiffersByMoreThanTenth(a, b) ==
  /\ ~a.nan /\ ~b.nan
  /\ \/ 10 * (a.num * b.den - b.num * a.den) > a.den * b.den
     \/ 10 * (b.num * a.den - a.num * b.den) > a.den * b.den

EnrichedFields == DOMAIN discovered \cap DOMAIN Get(knowledge, "field_definitions", <<>>)

\* C28 (as claimed): the same fields count as known to the knowledge base
\* everywhere: a field the merge enriched from a knowledge-base entry is never
\* reported in new_fields, and the confidence computation counts exactly the
\* enriched fields as found.
C28_SameKnownFieldsEverywhere ==
  sout.returned =>
    /\ EnrichedFields \cap learned.new_fields = {}
    /\ sout.confidence_score =
         CalculateDiscoveryConfidence(
           sout.field_metadata, [fields |-> Get(knowledge, "field_definitions", <<>>)])

\* C29: run_complete_pipeline returns success = False only when an exception
\* escaped a stage function; a run whose stages recorded errors in their
\* slots, even in all four, returns success = True with the consolidated
\* record holding those slots.
C29_SuccessUnlessEscape ==
  Returned =>
    /\ ~ret.success => raised
    /\ ~raised => (ret.success /\ ret.stages = results)
C29_Witness ==
  /\ Returned /\ ~raised /\ ret.success
  /\ \A k \in Stages : results[k].kind = "error" /\ ret.stages[k] = results[k]

LastStatus(history) == history[Len(history)]

\* C30: an applied update cycle moves every learning file it processed to the
\* processed archive, so a cycle that follows it with no new learning file
\* finds none, returns no_updates and leaves the knowledge base unchanged; a
\* cancelled cycle leaves the knowledge base and the learning files unchanged.
C30_LearningFilesConsumedOnce ==
  [][cycles' # cycles =>
       /\ LastStatus(cycles') = "success" =>
            /\ DiscoverLearningFiles(learning_dir') = {}
            /\ \A t \in DiscoverLearningFiles(learning_dir) : processed'[t] = learning_dir[t]
       /\ DiscoverLearningFiles(learning_dir) = {} =>
            /\ LastStatus(cycles') = "no_updates"
            /\ UNCHANGED <<config_file, backups, learning_dir, processed>>
       /\ LastStatus(cycles') = "cancelled" =>
            UNCHANGED <<config_file, backups, learning_dir, processed>>]_vars
C30_Witness ==
  /\ \E i \in 1..(Len(cycles) - 1) : cycles[i] = "success" /\ cycles[i + 1] = "no_updates"
  /\ \E i \in DOMAIN cycles : cycles[i] = "cancelled"
  /\ \E t \in Clock : processed[t].exists

====
